---- MODULE Spec2Model ----
(***************************************************************************)
(* MigrationEngine of src/core/migration-engine.ts as a state machine.     *)
(*                                                                         *)
(* The engine object has three private fields (state, plan, rollbackPlan). *)
(* Its public methods are async functions: the code up to the first await  *)
(* runs when the method is called, and every await is a point where other  *)
(* calls on the same engine may run.  A call in flight is a record of the  *)
(* bag `calls`; one action models one stretch of code between awaits.  A   *)
(* call that returns or throws leaves `calls`; its record is `settled`     *)
(* until the caller's continuation has taken it, which is the next step.   *)
(*                                                                         *)
(* The private generate..., execute... and check... methods of the engine  *)
(* are placeholders for filesystem work ("Implementation would ...").      *)
(* What they deliver (the operation list, whether an operation throws, the *)
(* result of a validator) is chosen by the environment from small sets     *)
(* that contain what the placeholders deliver today.                       *)
(***************************************************************************)
EXTENDS Integers, Sequences, FiniteSets, Bags, TLC

VARIABLES state, plan, rollbackPlan, scans, calls, settled

vars == <<state, plan, rollbackPlan, scans, calls, settled>>

\* ---------------------------------------------------------------- bounds
MaxInFlight == 2
MaxScans == 2
MaxOps == 2
\* how many validators of one battery settle to something else than valid
MaxNotValid == 1

\* ---------------------------------------------------------------- values
\* null, as a record so that it compares with ProjectState and plan records
NULL == [null |-> TRUE]

\* MigrationStrategy enum (two of its four members are enumerated as inputs)
MigrationStrategy == {"privy-to-para", "reown-to-para"}

Reverse(s) == [i \in 1..Len(s) |-> s[Len(s) + 1 - i]]

Range(s) == {s[i] : i \in 1..Len(s)}

\* The operation lists a plan may hold: the operation at position i has id i,
\* each operation is critical or not.  The empty list is what the
\* placeholder generators return.
ReplacementLists ==
  UNION { { [i \in 1..n |-> [id |-> i, critical |-> crit[i]]] : crit \in [1..n -> BOOLEAN] }
          : n \in 0..MaxOps }

\* ------------------------------------------------------- plan construction
generateValidations ==
  << [id |-> "pre-dependencies", type |-> "pre"],
     [id |-> "post-para-modal", type |-> "post"],
     [id |-> "post-css-imports", type |-> "post"],
     [id |-> "post-no-old-deps", type |-> "post"] >>

generateRollbackPlan(operations) ==
  [i \in 1..Len(operations) |-> [operationId |-> operations[i].id]]

estimateTime(operations) == 30 + Len(operations) * 15

\* ------------------------------------------------------------- validators
\* What one validator (or check) promise settles to.
ValidatorOutcomes == {"valid", "invalid", "throws"}

\* What the validators named in `ids` settle to, one outcome each.
Outcomes(ids) ==
  {o \in [Range(ids) -> ValidatorOutcomes] : Cardinality({id \in Range(ids) : o[id] # "valid"}) <= MaxNotValid}

\* The ValidationResult a validator resolves to; an invalid one carries one
\* critical issue, identified here by the id of the check that raised it.
validatorResult(id, o) ==
  [valid |-> o = "valid",
   issues |-> IF o = "valid" THEN <<>> ELSE <<[severity |-> "critical", code |-> id]>>,
   warnings |-> <<>>]

EmptyValidationResult == [valid |-> TRUE, issues |-> <<>>, warnings |-> <<>>]

\* The accumulation both runValidations and validateCompletion perform.
mergeCheck(result, r) ==
  [valid |-> result.valid /\ r.valid,
   issues |-> IF r.valid THEN result.issues ELSE result.issues \o r.issues,
   warnings |-> result.warnings \o r.warnings]

RECURSIVE awaitChecks(_, _, _)
awaitChecks(ids, outcome, result) ==
  IF ids = <<>> THEN [threw |-> FALSE, result |-> result]
  ELSE IF outcome[Head(ids)] = "throws" THEN [threw |-> TRUE, result |-> EmptyValidationResult]
  ELSE awaitChecks(Tail(ids), outcome, mergeCheck(result, validatorResult(Head(ids), outcome[Head(ids)])))

\* runValidations(type), first half: the checks of that type of this.plan.
validationsOfType(p, type) ==
  LET OfType(v) == v.type = type
      sel == SelectSeq(p.validations, OfType)
  IN [i \in 1..Len(sel) |-> sel[i].id]

\* runValidations(type), second half: the validators are awaited in order.
runValidations(ids, outcome) == awaitChecks(ids, outcome, EmptyValidationResult)

\* validateCompletion's criticalChecks
criticalChecks ==
  <<"checkParaModalPresent", "checkCssImportsPresent", "checkEnvironmentEnumUsage",
    "checkNoOldDependencies", "checkNoOldImports">>

\* --------------------------------------------------------------- rollback
\* executeRollback over the list it iterates; `fails` holds the positions
\* whose action rejects.  The first rejection ends the loop and the call.
executeRollback(list, fails) ==
  LET bad == {i \in 1..Len(list) : i \in fails}
      stop == IF bad = {} THEN Len(list) ELSE CHOOSE i \in bad : \A j \in bad : i <= j
  IN [invoked |-> [i \in 1..stop |-> list[i].operationId], threw |-> bad # {}]

\* ------------------------------------------------------------ result init
NewResult ==
  [success |-> FALSE, completedOperations |-> <<>>, failedOperations |-> <<>>,
   validationResults |-> <<>>, rollbackExecuted |-> FALSE, issues |-> <<>>]

\* The record of an executeAtomicMigration call.  attempted, rolledBack,
\* trigger and stale are history: the operations handed to executeOperation,
\* the rollback actions invoked, what sent the call into its catch block,
\* and whether this.plan was built from another scan than the one this.state
\* held when the call was made.
NewExecute ==
  [kind |-> "execute", pc |-> "pre", outcome |-> "pending", result |-> NewResult,
   validations |-> <<>>, ops |-> <<>>, idx |-> 0, rbList |-> <<>>,
   attempted |-> <<>>, rolledBack |-> <<>>, trigger |-> "none",
   stale |-> (plan # NULL /\ plan.scannedFrom # state)]

abortsOnFailure_never(operation) == FALSE

abortsOnFailure_always(operation) == TRUE

\* line 264: which failed operation aborts the plan
abortsOnFailure(operation) == operation.critical

catch_rethrows(c, trig) == [c EXCEPT !.pc = "done", !.outcome = "threw"]

\* the catch block of executeAtomicMigration up to `await executeRollback()`:
\* Array.prototype.reverse reverses this.rollbackPlan in place.
catch(c, trig) == [c EXCEPT !.pc = "rollback", !.trigger = trig, !.rbList = Reverse(rollbackPlan)]

return(c) == [c EXCEPT !.pc = "done", !.outcome = "returned"]

throw(c) == [c EXCEPT !.pc = "done", !.outcome = "threw"]

startOperation(c, k) == [c EXCEPT !.pc = "op", !.idx = k, !.attempted = Append(@, c.ops[k].id)]

startPost(c) == [c EXCEPT !.pc = "post", !.validations = validationsOfType(plan, "post")]

nextOperation_early(c) == startPost(c)

nextOperation_skipping(c) ==
  IF c.idx + 1 < Len(c.ops) THEN startOperation(c, c.idx + 2) ELSE startPost(c)

\* the for loop over the operations, and the code that follows it
nextOperation(c) == IF c.idx < Len(c.ops) THEN startOperation(c, c.idx + 1) ELSE startPost(c)

InFlight == BagToSet(calls)

\* a method is called: its record joins the calls in flight, or settles at
\* once when the method throws before its first await
Called(new) ==
  /\ settled = NULL
  /\ BagCardinality(calls) < MaxInFlight
  /\ IF new.pc = "done"
       THEN calls' = calls /\ settled' = new
       ELSE calls' = calls (+) SetToBag({new}) /\ settled' = settled

\* call c runs from one await to the next, or to its end, and is then `new`
Stepped(c, new) ==
  /\ settled = NULL
  /\ c \in InFlight
  /\ IF new.pc = "done"
       THEN calls' = calls (-) SetToBag({c}) /\ settled' = new
       ELSE calls' = (calls (-) SetToBag({c})) (+) SetToBag({new}) /\ settled' = settled

At(c, kind, pc) == c \in InFlight /\ c.kind = kind /\ c.pc = pc

\* ------------------------------------------------------------------- Init
Init ==
  /\ state = NULL
  /\ plan = NULL
  /\ rollbackPlan = <<>>
  /\ scans = 0
  /\ calls = EmptyBag
  /\ settled = NULL

\* scanProjectState has no await: it runs to completion when called.  Every
\* call builds a fresh (empty) ProjectState object whatever its argument;
\* `scan` stands for the identity of that object.
scanProjectState ==
  /\ settled = NULL
  /\ scans < MaxScans
  /\ scans' = scans + 1
  /\ state' = [scan |-> scans + 1]
  /\ UNCHANGED <<plan, rollbackPlan, calls, settled>>

mustScanFirst_unchecked == FALSE

\* line 199: createReplacementPlan's guard
mustScanFirst == state = NULL

\* createReplacementPlan up to its first await: the guard, the local plan,
\* and the start of generateReplacements, which reads this.state.  The
\* field scannedFrom is history: the ProjectState the plan is built from.
createReplacementPlan_call(strategy) ==
  /\ \E ops \in ReplacementLists :
       LET new == [kind |-> "create", pc |-> "generate", outcome |-> "pending",
                   plan |-> [strategy |-> strategy, replacements |-> ops, validations |-> <<>>,
                             rollbackPlan |-> <<>>, estimatedTime |-> 0, scannedFrom |-> state]]
       IN Called(IF mustScanFirst THEN throw([new EXCEPT !.plan = NULL]) ELSE new)
  /\ UNCHANGED <<state, plan, rollbackPlan, scans>>

\* createReplacementPlan after its awaits: validations, rollback plan and
\* estimate are filled in and the plan is stored in the engine.
createReplacementPlan_resume ==
  \E c \in InFlight :
  /\ At(c, "create", "generate")
  /\ LET p == [c.plan EXCEPT !.validations = generateValidations,
                             !.rollbackPlan = generateRollbackPlan(c.plan.replacements),
                             !.estimatedTime = estimateTime(c.plan.replacements)]
     IN /\ plan' = p
        /\ Stepped(c, return([c EXCEPT !.plan = p]))
  /\ UNCHANGED <<state, rollbackPlan, scans>>

\* line 231: executeAtomicMigration's guard
mustPlanFirst == plan = NULL

\* executeAtomicMigration up to its first await: the guard, the result
\* object, and runValidations('pre') reading this.plan.validations.
executeAtomicMigration_call ==
  /\ Called(IF mustPlanFirst THEN throw(NewExecute)
            ELSE [NewExecute EXCEPT !.validations = validationsOfType(plan, "pre")])
  /\ UNCHANGED <<state, plan, rollbackPlan, scans>>

\* the engine fields a step of executeAtomicMigration leaves
ExecuteFrame(new) ==
  /\ rollbackPlan' = IF new.pc = "rollback" THEN Reverse(rollbackPlan) ELSE rollbackPlan
  /\ UNCHANGED <<state, plan, scans>>

\* from the settling of runValidations('pre') to the next await
executeAtomicMigration_afterPre ==
  \E c \in InFlight :
  /\ At(c, "execute", "pre")
  /\ \E outcome \in Outcomes(c.validations) :
       LET pre == runValidations(c.validations, outcome)
           pushed == [c EXCEPT !.result.validationResults = Append(@, pre.result)]
           invalid == [pushed EXCEPT !.result.issues = @ \o pre.result.issues]
           loop == [pushed EXCEPT !.ops = plan.replacements, !.idx = 0]
           new == IF pre.threw THEN catch(c, "validator-threw")
                  ELSE IF ~pre.result.valid THEN catch(invalid, "pre")
                  ELSE nextOperation(loop)
       IN Stepped(c, new) /\ ExecuteFrame(new)

\* from the settling of executeOperation(ops[idx]) to the next await
executeAtomicMigration_afterOperation ==
  \E c \in InFlight :
  /\ At(c, "execute", "op")
  /\ \E throws \in BOOLEAN :
       LET operation == c.ops[c.idx]
           completed == [c EXCEPT !.result.completedOperations = Append(@, operation.id)]
           failed == [c EXCEPT !.result.failedOperations = Append(@, operation.id)]
           new == IF ~throws THEN nextOperation(completed)
                  ELSE IF abortsOnFailure(operation) THEN catch(failed, "critical")
                  ELSE nextOperation(failed)
       IN Stepped(c, new) /\ ExecuteFrame(new)

\* from the settling of runValidations('post') to the return or the catch
executeAtomicMigration_afterPost ==
  \E c \in InFlight :
  /\ At(c, "execute", "post")
  /\ \E outcome \in Outcomes(c.validations) :
       LET post == runValidations(c.validations, outcome)
           pushed == [c EXCEPT !.result.validationResults = Append(@, post.result)]
           invalid == [pushed EXCEPT !.result.issues = @ \o post.result.issues]
           new == IF post.threw THEN catch(c, "validator-threw")
                  ELSE IF ~post.result.valid THEN catch(invalid, "post")
                  ELSE return([pushed EXCEPT !.result.success = TRUE])
       IN Stepped(c, new) /\ ExecuteFrame(new)

executeAtomicMigration_afterRollback_unmarked ==
  \E c \in InFlight :
  /\ At(c, "execute", "rollback")
  /\ \E fails \in SUBSET (1..Len(c.rbList)) :
       LET rb == executeRollback(c.rbList, fails)
           new == return([c EXCEPT !.rolledBack = rb.invoked])
       IN Stepped(c, new) /\ ExecuteFrame(new)

\* executeRollback's loop and the rest of the catch block
executeAtomicMigration_afterRollback ==
  \E c \in InFlight :
  /\ At(c, "execute", "rollback")
  /\ \E fails \in SUBSET (1..Len(c.rbList)) :
       LET rb == executeRollback(c.rbList, fails)
           ran == [c EXCEPT !.rolledBack = rb.invoked]
           new == return(IF rb.threw
                           THEN [ran EXCEPT !.result.issues =
                                   Append(@, [severity |-> "critical", code |-> "ROLLBACK_FAILED"])]
                           ELSE [ran EXCEPT !.result.rollbackExecuted = TRUE])
       IN Stepped(c, new) /\ ExecuteFrame(new)

validateCompletionFrame_clears == plan' = NULL /\ UNCHANGED <<state, rollbackPlan, scans>>

\* validateCompletion assigns no field of the engine
validateCompletionFrame == UNCHANGED <<state, plan, rollbackPlan, scans>>

\* validateCompletion up to its first await: the five checks are started.
validateCompletion_call ==
  /\ Called([kind |-> "validate", pc |-> "checks", outcome |-> "pending",
             result |-> EmptyValidationResult, checks |-> <<>>])
  /\ validateCompletionFrame

\* validateCompletion's loop over the five check promises
validateCompletion_resume ==
  \E c \in InFlight :
  /\ At(c, "validate", "checks")
  /\ \E outcome \in Outcomes(criticalChecks) :
       LET r == awaitChecks(criticalChecks, outcome, EmptyValidationResult)
       IN Stepped(c, IF r.threw THEN throw(c)
                     ELSE return([c EXCEPT !.result = r.result,
                                           !.checks = [k \in 1..Len(criticalChecks) |->
                                                         outcome[criticalChecks[k]] = "valid"]]))
  /\ validateCompletionFrame

\* the caller's continuation takes the settled promise
continuation ==
  /\ settled # NULL
  /\ settled' = NULL
  /\ UNCHANGED <<state, plan, rollbackPlan, scans, calls>>

Next ==
  \/ scanProjectState
  \/ \E s \in MigrationStrategy : createReplacementPlan_call(s)
  \/ createReplacementPlan_resume
  \/ executeAtomicMigration_call
  \/ executeAtomicMigration_afterPre
  \/ executeAtomicMigration_afterOperation
  \/ executeAtomicMigration_afterPost
  \/ executeAtomicMigration_afterRollback
  \/ validateCompletion_call
  \/ validateCompletion_resume
  \/ continuation

Spec == Init /\ [][Next]_vars

\* ====================================================== replacement-strategy.ts
\* ---------------------------------------------------------------- strings
\* String.prototype.includes
includes(s, p) == \E i \in 1..(Len(s) - Len(p) + 1) : SubSeq(s, i, i + Len(p) - 1) = p

\* String.prototype.indexOf, counted from 1; 0 when p does not occur
indexOf(s, p) ==
  LET at == {i \in 1..(Len(s) - Len(p) + 1) : SubSeq(s, i, i + Len(p) - 1) = p}
  IN IF at = {} THEN 0 ELSE CHOOSE i \in at : \A j \in at : i <= j

\* String.prototype.replace with a string pattern: the first occurrence only
replace(s, a, b) ==
  LET i == indexOf(s, a)
  IN IF i = 0 THEN s ELSE SubSeq(s, 1, i - 1) \o b \o SubSeq(s, i + Len(a), Len(s))

\* dep.replace(/[@/]/g, '-')
RECURSIVE dashed(_)
dashed(s) ==
  IF Len(s) = 0 THEN ""
  ELSE (IF SubSeq(s, 1, 1) \in {"@", "/"} THEN "-" ELSE SubSeq(s, 1, 1)) \o dashed(SubSeq(s, 2, Len(s)))

upperCase == <<"A", "B", "C", "D", "E", "F", "G", "H", "I", "J", "K", "L", "M",
               "N", "O", "P", "Q", "R", "S", "T", "U", "V", "W", "X", "Y", "Z">>

lowerCase == <<"a", "b", "c", "d", "e", "f", "g", "h", "i", "j", "k", "l", "m",
               "n", "o", "p", "q", "r", "s", "t", "u", "v", "w", "x", "y", "z">>

\* String.prototype.toLowerCase
RECURSIVE toLowerCase(_)
toLowerCase(s) ==
  IF Len(s) = 0 THEN ""
  ELSE LET ch == SubSeq(s, 1, 1)
           up == {k \in 1..Len(upperCase) : upperCase[k] = ch}
       IN (IF up = {} THEN ch ELSE lowerCase[CHOOSE k \in up : TRUE]) \o toLowerCase(SubSeq(s, 2, Len(s)))

\* Array.prototype.filter, some, join
filter(seq, Keep(_)) == SelectSeq(seq, Keep)

some(seq, Test(_)) == \E i \in 1..Len(seq) : Test(seq[i])

RECURSIVE join(_, _)
join(seq, sep) ==
  IF seq = <<>> THEN ""
  ELSE IF Len(seq) = 1 THEN seq[1]
  ELSE seq[1] \o sep \o join(Tail(seq), sep)

\* ------------------------------------------------------------ ProjectState
\* props of a ProviderUsage: the object's own keys in insertion order, each
\* with a string value, as a sequence of <<key, value>> pairs
prop(props, key, default) ==
  LET at == {i \in 1..Len(props) : props[i][1] = key /\ props[i][2] # ""}
  IN IF at = {} THEN default ELSE props[CHOOSE i \in at : \A j \in at : i >= j][2]

\* JSON.stringify of such an object
stringify(props) ==
  "{" \o join([i \in 1..Len(props) |-> "\"" \o props[i][1] \o "\":\"" \o props[i][2] \o "\""], ",") \o "}"

\* the null a hook lookup and detectStrategy return where a string is
\* expected; the code tests it by truthiness (`if (newHook)`, `!strategy`)
NoReplacement == ""

NoStrategy == ""

\* Object.keys(state.dependencies): dependencies is modelled by its keys, the
\* package names in insertion order; the versions are never read
keys(dependencies) == Range(dependencies)

\* the ProjectState scanProjectState builds
EmptyProjectState ==
  [dependencies |-> <<>>, imports |-> <<>>, providers |-> <<>>, hooks |-> <<>>,
   styles |-> <<>>, entryPoints |-> <<>>]

\* -------------------------------------------------- replacement maps (engine)
HOOK_REPLACEMENT_MAP ==
  [privy_to_para |->
     [usePrivy |-> "useAccount", useWallets |-> "useWallet", useLogin |-> "useConnect",
      useLogout |-> "useDisconnect", useEmbeddedWallet |-> "useWallet"],
   reown_to_para |->
     [useAppKit |-> "useModal", useAppKitAccount |-> "useAccount", useAppKitTheme |-> "useModal",
      useAppKitState |-> "useAccount", useAppKitEvents |-> "useWallet",
      useDisconnect |-> "useDisconnect", useWalletInfo |-> "useWallet",
      useWeb3Modal |-> "useModal", useWeb3ModalAccount |-> "useAccount",
      useWeb3ModalTheme |-> "useModal", useWeb3ModalState |-> "useAccount"],
   web3modal_to_para |->
     [useWeb3Modal |-> "useModal", useWeb3ModalAccount |-> "useAccount",
      useWeb3ModalTheme |-> "useModal", useWeb3ModalState |-> "useAccount",
      useDisconnect |-> "useDisconnect"]]

\* the component and requiredComponents of each entry
PROVIDER_REPLACEMENT_MAP ==
  [privy_to_para |->
     [component |-> "PrivyProvider", replacement |-> "ParaProvider",
      requiredComponents |-> <<"ParaModal">>],
   reown_to_para |->
     [component |-> "AppKit", replacement |-> "ParaProvider",
      requiredComponents |-> <<"ParaModal">>]]

\* the ReplacementOperation both strategies push for an entry point
styleOperation(entryPoint) ==
  [id |-> "add-para-css-" \o entryPoint, type |-> "style", file |-> entryPoint,
   oldValue |-> "", newValue |-> "import '@para-wallet/react/styles.css'", critical |-> TRUE]

addParaReact ==
  [id |-> "add-para-react", type |-> "dependency", oldValue |-> "",
   newValue |-> "@para-wallet/react", critical |-> TRUE]

\* the closing lines of both generateParaProvider templates
paraModalChild ==
  ">\n  {children}\n  {/* CRITICAL: ParaModal is REQUIRED - #1 missing piece in failed migrations */}\n"
    \o "  <ParaModal />\n</ParaProvider>"

\* ------------------------------------------------------ PrivyToParaStrategy
PrivyToParaStrategy_getParaImportReplacement(privyImport) ==
  IF includes(privyImport, "usePrivy") THEN replace(privyImport, "usePrivy", "useAccount")
  ELSE IF includes(privyImport, "useWallets") THEN replace(privyImport, "useWallets", "useWallet")
  ELSE IF includes(privyImport, "useLogin") THEN replace(privyImport, "useLogin", "useConnect")
  ELSE IF includes(privyImport, "useLogout") THEN replace(privyImport, "useLogout", "useDisconnect")
  ELSE IF includes(privyImport, "PrivyProvider")
    THEN replace(privyImport, "PrivyProvider", "ParaProvider, ParaModal")
  ELSE replace(privyImport, "@privy-io/react-auth", "@para-wallet/react")

PrivyToParaStrategy_getHookReplacement(privyHook) ==
  LET replacements == HOOK_REPLACEMENT_MAP.privy_to_para
  IN IF privyHook \in DOMAIN replacements THEN replacements[privyHook] ELSE NoReplacement

PrivyToParaStrategy_generatePrivyProvider(props) ==
  "<PrivyProvider\n  appId={" \o prop(props, "appId", "PRIVY_APP_ID") \o "}\n  clientId={"
    \o prop(props, "clientId", "PRIVY_CLIENT_ID") \o "}\n  config={{...}}\n>\n  {children}\n</PrivyProvider>"

PrivyToParaStrategy_generateParaProvider_noModal(props) ==
  "<ParaProvider\n  config={{\n    apiKey: " \o prop(props, "appId", "PARA_API_KEY")
    \o ",\n  }}\n>\n  {children}\n</ParaProvider>"

PrivyToParaStrategy_generateParaProvider(props) ==
  "<ParaProvider\n  config={{\n    apiKey: " \o prop(props, "appId", "PARA_API_KEY")
    \o ",\n    paraClientConfig: {\n      env: Environment.DEVELOPMENT,\n    },\n"
    \o "    embeddedWalletConfig: {\n      createOnLogin: \"all-users\",\n"
    \o "      showWalletUiOnLogin: true,\n    }\n  }}\n" \o paraModalChild

PrivyToParaStrategy_execute(st) ==
  LET isPrivyImport(i) == i.type = "privy"
      isPrivyProvider(p) == p.provider = "PrivyProvider"
      isPrivyHook(h) == includes(h.from, "privy")
      hasReplacement(h) == PrivyToParaStrategy_getHookReplacement(h.hook) # NoReplacement
      imports == filter(st.imports, isPrivyImport)
      providers == filter(st.providers, isPrivyProvider)
      hooks == filter(filter(st.hooks, isPrivyHook), hasReplacement)
  IN << [id |-> "remove-privy-deps", type |-> "dependency", oldValue |-> "@privy-io/react-auth",
         newValue |-> "", critical |-> TRUE],
        [id |-> "remove-privy-wagmi", type |-> "dependency", oldValue |-> "@privy-io/wagmi",
         newValue |-> "", critical |-> TRUE],
        addParaReact >>
     \o [k \in 1..Len(imports) |->
           [id |-> "replace-import-" \o imports[k].file \o "-" \o ToString(imports[k].line),
            type |-> "import", file |-> imports[k].file, line |-> imports[k].line,
            oldValue |-> imports[k].import,
            newValue |-> PrivyToParaStrategy_getParaImportReplacement(imports[k].import),
            critical |-> TRUE]]
     \o [k \in 1..Len(providers) |->
           [id |-> "replace-provider-" \o providers[k].file \o "-" \o ToString(providers[k].line),
            type |-> "provider", file |-> providers[k].file, line |-> providers[k].line,
            oldValue |-> PrivyToParaStrategy_generatePrivyProvider(providers[k].props),
            newValue |-> PrivyToParaStrategy_generateParaProvider(providers[k].props),
            critical |-> TRUE]]
     \o [k \in 1..Len(hooks) |->
           [id |-> "replace-hook-" \o hooks[k].file \o "-" \o ToString(hooks[k].line),
            type |-> "hook", file |-> hooks[k].file, line |-> hooks[k].line,
            oldValue |-> hooks[k].usage,
            newValue |-> replace(hooks[k].usage, hooks[k].hook,
                                 PrivyToParaStrategy_getHookReplacement(hooks[k].hook)),
            critical |-> FALSE]]
     \o [k \in 1..Len(st.entryPoints) |-> styleOperation(st.entryPoints[k])]

PrivyToParaStrategy_validate(st) ==
  LET isPrivyImport(i) == i.type = "privy"
      hasPrivyAuth == "@privy-io/react-auth" \in keys(st.dependencies)
      hasPrivyImports == some(st.imports, isPrivyImport)
  IN hasPrivyAuth \/ hasPrivyImports

\* ------------------------------------------------------ ReownToParaStrategy
reownDependencies ==
  <<"@reown/appkit", "@reown/appkit-adapter-wagmi", "@reown/appkit-react", "@reown/appkit-siwe",
    "@web3modal/wagmi", "@web3modal/siwe", "@web3modal/ethereum">>

\* the rules of getParaImportReplacement in the order they are tried: the
\* first whose pattern occurs in the import is applied
reownImportRules ==
  << <<"useAppKit", "useModal">>, <<"useAppKitAccount", "useAccount">>,
     <<"useAppKitTheme", "useModal">>, <<"useAppKitState", "useAccount">>,
     <<"useAppKitEvents", "useWallet">>, <<"useWeb3Modal", "useModal">>,
     <<"useWeb3ModalAccount", "useAccount">>, <<"useWeb3ModalTheme", "useModal">>,
     <<"createAppKit", "ParaProvider, ParaModal">>, <<"createWeb3Modal", "ParaProvider, ParaModal">>,
     <<"defaultWagmiConfig", "wagmiConfig">>,
     <<"@reown/appkit", "@para-wallet/react">>, <<"@reown/appkit-react", "@para-wallet/react">>,
     <<"@reown/appkit-adapter-wagmi", "@para-wallet/react">>, <<"@web3modal/wagmi", "@para-wallet/react">>,
     <<"@web3modal/siwe", "@para-wallet/react">>, <<"@web3modal/ethereum", "@para-wallet/react">> >>

ReownToParaStrategy_getParaImportReplacement(reownImport) ==
  LET hit == {k \in 1..Len(reownImportRules) : includes(reownImport, reownImportRules[k][1])}
      first == CHOOSE k \in hit : \A j \in hit : k <= j
  IN IF hit = {} THEN reownImport
     ELSE replace(reownImport, reownImportRules[first][1], reownImportRules[first][2])

ReownToParaStrategy_generateReownProvider(provider) ==
  IF includes(provider.provider, "AppKit")
    THEN "<AppKit \n  projectId=\"" \o prop(provider.props, "projectId", "REOWN_PROJECT_ID")
           \o "\"\n  wagmiConfig={wagmiConfig}\n  metadata={metadata}\n>\n  {children}\n</AppKit>"
  ELSE IF includes(provider.provider, "Web3Modal")
    THEN "<Web3Modal \n  projectId=\"" \o prop(provider.props, "projectId", "WEB3MODAL_PROJECT_ID")
           \o "\"\n  wagmiConfig={wagmiConfig}\n>\n  {children}\n</Web3Modal>"
  ELSE provider.provider \o " config={...}>{children}</" \o provider.provider \o ">"

ReownToParaStrategy_generateParaProvider(props) ==
  "<ParaProvider\n  config={{\n    apiKey: " \o prop(props, "projectId", "PARA_API_KEY")
    \o ",\n    paraClientConfig: {\n      env: Environment.DEVELOPMENT,\n    },\n"
    \o "    embeddedWalletConfig: {\n      createOnLogin: \"all-users\",\n"
    \o "      showWalletUiOnLogin: true,\n    },\n    wagmiConfig // Keep existing Wagmi config\n  }}\n"
    \o paraModalChild

reownHooks ==
  {"useAppKit", "useAppKitAccount", "useAppKitTheme", "useAppKitState", "useAppKitEvents",
   "useWeb3Modal", "useWeb3ModalAccount", "useWeb3ModalTheme", "useWeb3ModalState"}

ReownToParaStrategy_isReownHook(hookName) == hookName \in reownHooks

ReownToParaStrategy_getReownHookReplacement(reownHook) ==
  LET replacements ==
        [useAppKit |-> "useModal", useAppKitAccount |-> "useAccount", useAppKitTheme |-> "useModal",
         useAppKitState |-> "useAccount", useAppKitEvents |-> "useWallet",
         useWeb3Modal |-> "useModal", useWeb3ModalAccount |-> "useAccount",
         useWeb3ModalTheme |-> "useModal", useWeb3ModalState |-> "useAccount"]
  IN IF reownHook \in DOMAIN replacements THEN replacements[reownHook] ELSE NoReplacement

ReownToParaStrategy_execute(st) ==
  LET present(dep) == dep \in keys(st.dependencies)
      isReownImport(i) == i.type = "reown" \/ includes(i.from, "reown") \/ includes(i.from, "web3modal")
      isReownProvider(p) ==
        \/ includes(p.provider, "AppKit")
        \/ includes(p.provider, "Web3Modal")
        \/ includes(p.provider, "createWeb3Modal")
      isReownHook(h) == ReownToParaStrategy_isReownHook(h.hook)
      hasReplacement(h) == ReownToParaStrategy_getReownHookReplacement(h.hook) # NoReplacement
      deps == filter(reownDependencies, present)
      reownImports == filter(st.imports, isReownImport)
      reownProviders == filter(st.providers, isReownProvider)
      hooks == filter(filter(st.hooks, isReownHook), hasReplacement)
  IN [k \in 1..Len(deps) |->
        [id |-> "remove-" \o dashed(deps[k]), type |-> "dependency", oldValue |-> deps[k],
         newValue |-> "", critical |-> TRUE]]
     \o << addParaReact >>
     \o [k \in 1..Len(reownImports) |->
           [id |-> "replace-import-" \o reownImports[k].file \o "-" \o ToString(reownImports[k].line),
            type |-> "import", file |-> reownImports[k].file, line |-> reownImports[k].line,
            oldValue |-> reownImports[k].import,
            newValue |-> ReownToParaStrategy_getParaImportReplacement(reownImports[k].import),
            critical |-> TRUE]]
     \o [k \in 1..Len(reownProviders) |->
           [id |-> "replace-provider-" \o reownProviders[k].file \o "-" \o ToString(reownProviders[k].line),
            type |-> "provider", file |-> reownProviders[k].file, line |-> reownProviders[k].line,
            oldValue |-> ReownToParaStrategy_generateReownProvider(reownProviders[k]),
            newValue |-> ReownToParaStrategy_generateParaProvider(reownProviders[k].props),
            critical |-> TRUE]]
     \o [k \in 1..Len(hooks) |->
           [id |-> "replace-hook-" \o hooks[k].file \o "-" \o ToString(hooks[k].line),
            type |-> "hook", file |-> hooks[k].file, line |-> hooks[k].line,
            oldValue |-> hooks[k].usage,
            newValue |-> replace(hooks[k].usage, hooks[k].hook,
                                 ReownToParaStrategy_getReownHookReplacement(hooks[k].hook)),
            critical |-> FALSE]]
     \o [k \in 1..Len(st.entryPoints) |-> styleOperation(st.entryPoints[k])]

reownPatterns == {"reown", "web3modal", "appkit"}

ReownToParaStrategy_validate(st) ==
  LET importMatches(i) == \E pattern \in reownPatterns : includes(i.from, pattern) \/ i.type = "reown"
      providerMatches(p) == \E pattern \in reownPatterns : includes(toLowerCase(p.provider), pattern)
      hasReownDeps == \E dep \in keys(st.dependencies) : \E pattern \in reownPatterns : includes(dep, pattern)
      hasReownImports == some(st.imports, importMatches)
      hasReownProviders == some(st.providers, providerMatches)
  IN hasReownDeps \/ hasReownImports \/ hasReownProviders

\* -------------------------------------------------- Web3ModalToParaStrategy
Web3ModalToParaStrategy_execute(st) ==
  << [id |-> "remove-web3modal-wagmi", type |-> "dependency", oldValue |-> "@web3modal/wagmi",
      newValue |-> "", critical |-> TRUE],
     [id |-> "remove-web3modal-siwe", type |-> "dependency", oldValue |-> "@web3modal/siwe",
      newValue |-> "", critical |-> TRUE],
     addParaReact >>

Web3ModalToParaStrategy_validate(st) == \E dep \in keys(st.dependencies) : includes(dep, "web3modal")

\* ---------------------------------------------------------- StrategyFactory
\* the strategies createStrategy has a case for; any other name throws
SupportedStrategies == {"privy-to-para", "reown-to-para", "web3modal-to-para"}

\* createStrategy(strategy).execute(state)
execute(strategy, st) ==
  CASE strategy = "privy-to-para" -> PrivyToParaStrategy_execute(st)
    [] strategy = "reown-to-para" -> ReownToParaStrategy_execute(st)
    [] strategy = "web3modal-to-para" -> Web3ModalToParaStrategy_execute(st)

\* createStrategy(strategy).validate(state)
validate(strategy, st) ==
  CASE strategy = "privy-to-para" -> PrivyToParaStrategy_validate(st)
    [] strategy = "reown-to-para" -> ReownToParaStrategy_validate(st)
    [] strategy = "web3modal-to-para" -> Web3ModalToParaStrategy_validate(st)

detectStrategy(st) ==
  LET deps == keys(st.dependencies)
      imports == {st.imports[i].from : i \in 1..Len(st.imports)}
  IN IF "@privy-io/react-auth" \in deps \/ \E i \in imports : includes(i, "privy")
       THEN "privy-to-para"
     ELSE IF (\E d \in deps : includes(d, "reown")) \/ \E i \in imports : includes(i, "reown")
       THEN "reown-to-para"
     ELSE IF (\E d \in deps : includes(d, "web3modal")) \/ \E i \in imports : includes(i, "web3modal")
       THEN "web3modal-to-para"
     ELSE NoStrategy

\* ---------------------------------------------------------- AtomicValidator
\* the five checks of validatePostMigration, by the code of the issue each
\* raises
postMigrationChecks ==
  <<"MISSING_PARA_MODAL", "MISSING_PARA_CSS", "STRING_ENVIRONMENT", "OLD_DEPENDENCIES_PRESENT",
    "MISSING_PARA_DEPENDENCY">>

\* which of these five a validation of the engine's plan checks for
checkOf(id) ==
  CASE id = "post-para-modal" -> "MISSING_PARA_MODAL"
    [] id = "post-css-imports" -> "MISSING_PARA_CSS"
    [] id = "post-no-old-deps" -> "OLD_DEPENDENCIES_PRESENT"
    [] OTHER -> "none"

\* one ValidationIssue; message and fix are kept where a check builds them
\* from the state
issue(code) == [severity |-> "critical", code |-> code]

checkMigratableContent(st) ==
  LET isOld(dep) == \/ includes(dep, "privy") \/ includes(dep, "reown")
                    \/ includes(dep, "web3modal") \/ includes(dep, "walletconnect")
      oldWalletDeps == filter(st.dependencies, isOld)
  IN IF Len(oldWalletDeps) = 0
       THEN [valid |-> FALSE, issues |-> <<issue("NO_MIGRATABLE_CONTENT")>>, warnings |-> <<>>]
       ELSE EmptyValidationResult

checkProjectStructure(st) ==
  IF Len(st.entryPoints) = 0
    THEN [valid |-> FALSE, issues |-> <<issue("NO_ENTRY_POINTS")>>, warnings |-> <<>>]
    ELSE EmptyValidationResult

checkForConflicts(st) ==
  LET hasParaDep == \E dep \in keys(st.dependencies) : includes(dep, "para")
  IN IF hasParaDep
       THEN [valid |-> TRUE, issues |-> <<>>,
             warnings |-> <<"Para SDK already present - migration may overwrite existing configuration">>]
       ELSE EmptyValidationResult

validateParaModalPresent(st) ==
  LET isParaModal(imp) == includes(imp.import, "ParaModal") /\ includes(imp.from, "para")
  IN IF ~some(st.imports, isParaModal)
       THEN [valid |-> FALSE, issues |-> <<issue("MISSING_PARA_MODAL")>>, warnings |-> <<>>]
       ELSE EmptyValidationResult

validateParaCssImports(st) ==
  LET isPara(style) == style.isParaStyle
  IN IF ~some(st.styles, isPara)
       THEN [valid |-> FALSE, issues |-> <<issue("MISSING_PARA_CSS")>>, warnings |-> <<>>]
       ELSE EmptyValidationResult

validateEnvironmentEnum(st) ==
  LET stringEnv(provider) ==
        \/ /\ provider.provider = "ParaProvider"
           /\ includes(stringify(provider.props), "\"development\"")
        \/ includes(stringify(provider.props), "\"production\"")
  IN IF some(st.providers, stringEnv)
       THEN [valid |-> FALSE, issues |-> <<issue("STRING_ENVIRONMENT")>>, warnings |-> <<>>]
       ELSE EmptyValidationResult

validateOldDependenciesRemoved(st) ==
  LET isOld(dep) == includes(dep, "privy") \/ includes(dep, "reown") \/ includes(dep, "web3modal")
      oldDeps == filter(st.dependencies, isOld)
  IN IF Len(oldDeps) > 0
       THEN [valid |-> FALSE,
             issues |-> <<[severity |-> "critical", code |-> "OLD_DEPENDENCIES_PRESENT",
                           message |-> "Old wallet dependencies still present: " \o join(oldDeps, ", "),
                           fix |-> "Run: npm uninstall " \o join(oldDeps, " ")]>>,
             warnings |-> <<>>]
       ELSE EmptyValidationResult

validateParaDependenciesPresent(st) ==
  LET hasParaDep == \E dep \in keys(st.dependencies) : includes(dep, "para")
  IN IF ~hasParaDep
       THEN [valid |-> FALSE, issues |-> <<issue("MISSING_PARA_DEPENDENCY")>>, warnings |-> <<>>]
       ELSE EmptyValidationResult

validateNoOldImports(st) ==
  LET isOld(imp) == imp.type \in {"privy", "reown", "web3modal"}
      oldImports == filter(st.imports, isOld)
  IN IF Len(oldImports) > 0
       THEN [valid |-> FALSE,
             issues |-> [k \in 1..Len(oldImports) |->
                           [severity |-> "critical", code |-> "OLD_IMPORT_PRESENT",
                            file |-> oldImports[k].file, line |-> oldImports[k].line]],
             warnings |-> <<>>]
       ELSE EmptyValidationResult

validateParaHooksUsage(st) ==
  LET isPara(hook) == includes(hook.from, "para")
      paraHooks == filter(st.hooks, isPara)
  IN IF Len(paraHooks) = 0
       THEN [valid |-> TRUE, issues |-> <<>>,
             warnings |-> <<"No Para hooks detected - ensure Para hooks are being used">>]
       ELSE EmptyValidationResult

validateParaProviderConfig(st) ==
  LET isPara(p) == p.provider = "ParaProvider"
      paraProviders == filter(st.providers, isPara)
  IN IF Len(paraProviders) = 0
       THEN [valid |-> FALSE, issues |-> <<issue("NO_PARA_PROVIDER")>>, warnings |-> <<>>]
     ELSE IF Len(paraProviders) > 1
       THEN [valid |-> TRUE, issues |-> <<>>,
             warnings |-> <<"Multiple ParaProviders detected - ensure only one is active">>]
     ELSE EmptyValidationResult

\* what each battery does with the result of one check: an invalid check
\* clears valid and hands over its issues; nothing else is read from it
collect(result, check) ==
  IF ~check.valid
    THEN [result EXCEPT !.valid = FALSE, !.issues = @ \o check.issues]
    ELSE result

validatePreFlight(st) ==
  collect(collect(collect(EmptyValidationResult, checkMigratableContent(st)),
                  checkProjectStructure(st)),
          checkForConflicts(st))

validatePostMigration(st) ==
  collect(collect(collect(collect(collect(EmptyValidationResult, validateParaModalPresent(st)),
                                  validateParaCssImports(st)),
                          validateEnvironmentEnum(st)),
                  validateOldDependenciesRemoved(st)),
          validateParaDependenciesPresent(st))

AtomicValidator_validateCompletion(st) ==
  collect(collect(collect(EmptyValidationResult, validateNoOldImports(st)),
                  validateParaHooksUsage(st)),
          validateParaProviderConfig(st))

\* Math.round of a quotient of naturals: halves go up
round(numerator, denominator) == (2 * numerator + denominator) \div (2 * denominator)

calculateMigrationSuccess_oldImports15(st) ==
  LET maxScore == 100
      isOldDep(dep) == includes(dep, "privy") \/ includes(dep, "reown") \/ includes(dep, "web3modal")
      hasParaDep == \E dep \in keys(st.dependencies) : includes(dep, "para")
      hasOldDeps == \E dep \in keys(st.dependencies) : isOldDep(dep)
      hasParaImports == some(st.imports, LAMBDA imp : includes(imp.from, "para"))
      hasOldImports == some(st.imports, LAMBDA imp : imp.type \in {"privy", "reown", "web3modal"})
      hasParaProvider == some(st.providers, LAMBDA p : p.provider = "ParaProvider")
      hasParaModal == some(st.imports, LAMBDA imp : includes(imp.import, "ParaModal"))
      hasParaCss == some(st.styles, LAMBDA style : style.isParaStyle)
      hasParaHooks == some(st.hooks, LAMBDA hook : includes(hook.from, "para"))
      score == (IF hasParaDep THEN 15 ELSE 0) + (IF ~hasOldDeps THEN 15 ELSE 0)
                 + (IF hasParaImports THEN 15 ELSE 0) + (IF ~hasOldImports THEN 15 ELSE 0)
                 + (IF hasParaProvider THEN 15 ELSE 0) + (IF hasParaModal THEN 10 ELSE 0)
                 + (IF hasParaCss THEN 10 ELSE 0) + (IF hasParaHooks THEN 10 ELSE 0)
  IN round(score * 100, maxScore)

calculateMigrationSuccess(st) ==
  LET maxScore == 100
      isOldDep(dep) == includes(dep, "privy") \/ includes(dep, "reown") \/ includes(dep, "web3modal")
      hasParaDep == \E dep \in keys(st.dependencies) : includes(dep, "para")
      hasOldDeps == \E dep \in keys(st.dependencies) : isOldDep(dep)
      hasParaImports == some(st.imports, LAMBDA imp : includes(imp.from, "para"))
      hasOldImports == some(st.imports, LAMBDA imp : imp.type \in {"privy", "reown", "web3modal"})
      hasParaProvider == some(st.providers, LAMBDA p : p.provider = "ParaProvider")
      hasParaModal == some(st.imports, LAMBDA imp : includes(imp.import, "ParaModal"))
      hasParaCss == some(st.styles, LAMBDA style : style.isParaStyle)
      hasParaHooks == some(st.hooks, LAMBDA hook : includes(hook.from, "para"))
      score == (IF hasParaDep THEN 15 ELSE 0) + (IF ~hasOldDeps THEN 15 ELSE 0)
                 + (IF hasParaImports THEN 15 ELSE 0) + (IF ~hasOldImports THEN 10 ELSE 0)
                 + (IF hasParaProvider THEN 15 ELSE 0) + (IF hasParaModal THEN 10 ELSE 0)
                 + (IF hasParaCss THEN 10 ELSE 0) + (IF hasParaHooks THEN 10 ELSE 0)
  IN round(score * 100, maxScore)

\* ======================================== the strategies and the validator
\* The strategies, the StrategyFactory and the AtomicValidator are functions
\* of the ProjectState they are given.  Under PureSpec the engine's state is
\* any ProjectState a scanner may supply, built from the records below (those
\* of test-atomic-architecture.js and test-reown-migration.js and their
\* migrated counterparts), no record twice, with at most MaxItems records in
\* all; an action applies one function to it and settles with what the
\* function returned.
MaxItems == 3

DependencyNames ==
  {"@privy-io/react-auth", "@privy-io/wagmi", "@reown/appkit", "@web3modal/wagmi",
   "@para-wallet/react", "wagmi"}

FileImports ==
  {[file |-> "src/components/auth.tsx", line |-> 5, import |-> "usePrivy",
    from |-> "@privy-io/react-auth", type |-> "privy"],
   [file |-> "src/providers/web3-provider.tsx", line |-> 5, import |-> "createAppKit",
    from |-> "@reown/appkit/react", type |-> "reown"],
   [file |-> "src/components/connect-button.tsx", line |-> 8, import |-> "useWeb3Modal",
    from |-> "@web3modal/wagmi/react", type |-> "web3modal"],
   [file |-> "src/providers/app-provider.tsx", line |-> 3, import |-> "ParaProvider, ParaModal",
    from |-> "@para-wallet/react", type |-> "para"],
   [file |-> "src/components/connect-button.tsx", line |-> 9, import |-> "useAppKitAccount",
    from |-> "@reown/appkit/react", type |-> "reown"],
   [file |-> "src/components/fund.tsx", line |-> 2, import |-> "useFundWallet",
    from |-> "@privy-io/react-auth", type |-> "privy"]}

ProviderUsages ==
  {[file |-> "src/providers/app-provider.tsx", line |-> 10, provider |-> "PrivyProvider",
    props |-> << <<"appId", "test-app-id">> >>, active |-> TRUE],
   [file |-> "src/providers/web3-provider.tsx", line |-> 15, provider |-> "AppKit",
    props |-> << <<"projectId", "test-project-id">> >>, active |-> TRUE],
   [file |-> "src/providers/web3-provider.tsx", line |-> 15, provider |-> "Web3Modal",
    props |-> <<>>, active |-> TRUE],
   [file |-> "src/providers/app-provider.tsx", line |-> 10, provider |-> "ParaProvider",
    props |-> <<>>, active |-> TRUE],
   [file |-> "src/main.tsx", line |-> 8, provider |-> "ParaProvider",
    props |-> << <<"env", "development">> >>, active |-> TRUE],
   [file |-> "src/providers/para-provider.tsx", line |-> 6, provider |-> "ParaProvider",
    props |-> << <<"env", "production">> >>, active |-> TRUE],
   [file |-> "src/providers/legacy-provider.tsx", line |-> 7, provider |-> "AppKit",
    props |-> << <<"environment", "development">> >>, active |-> TRUE]}

HookUsages ==
  {[file |-> "src/components/auth.tsx", line |-> 12, hook |-> "useLogin",
    from |-> "@privy-io/react-auth",
    usage |-> "const { login } = useLogin(); const { logout } = useLogout()"],
   [file |-> "src/components/auth.tsx", line |-> 12, hook |-> "useLogout",
    from |-> "@privy-io/react-auth",
    usage |-> "const { login } = useLogin(); const { logout } = useLogout()"],
   [file |-> "src/components/connect-button.tsx", line |-> 12, hook |-> "useAppKit",
    from |-> "@reown/appkit/react", usage |-> "const { open } = useAppKit()"],
   [file |-> "src/components/connect-button.tsx", line |-> 13, hook |-> "useAccount",
    from |-> "@para-wallet/react", usage |-> "const { address } = useAccount()"],
   [file |-> "src/components/connect-button.tsx", line |-> 14, hook |-> "useWeb3Modal",
    from |-> "@web3modal/wagmi/react", usage |-> "const { open } = useWeb3Modal()"],
   [file |-> "src/components/wallet-info.tsx", line |-> 6, hook |-> "useWalletInfo",
    from |-> "@reown/appkit/react", usage |-> "const { walletInfo } = useWalletInfo()"],
   [file |-> "src/components/login.tsx", line |-> 4, hook |-> "useLogin",
    from |-> "./hooks/auth", usage |-> "const { login } = useLogin()"]}

StyleImports ==
  {[file |-> "src/main.tsx", line |-> 1, import |-> "@para-wallet/react/styles.css",
    isParaStyle |-> TRUE],
   [file |-> "src/main.tsx", line |-> 2, import |-> "./index.css", isParaStyle |-> FALSE]}

EntryPoints == {"src/main.tsx", "src/App.tsx"}

\* the sequences of n different elements of S
Listing(S, n) == {s \in [1..n -> S] : \A i, j \in 1..n : i # j => s[i] # s[j]}

\* how many records each part of a ProjectState holds
Shapes ==
  {d \in [{"dependencies", "imports", "providers", "hooks", "styles", "entryPoints"} -> 0..MaxItems] :
     d.dependencies + d.imports + d.providers + d.hooks + d.styles + d.entryPoints <= MaxItems}

\* the ProjectStates of one shape
ProjectStatesOf(d) ==
  [dependencies : Listing(DependencyNames, d.dependencies), imports : Listing(FileImports, d.imports),
   providers : Listing(ProviderUsages, d.providers), hooks : Listing(HookUsages, d.hooks),
   styles : Listing(StyleImports, d.styles), entryPoints : Listing(EntryPoints, d.entryPoints)]

ProjectStates == UNION {ProjectStatesOf(d) : d \in Shapes}

PureInit ==
  /\ \E d \in Shapes : state \in ProjectStatesOf(d)
  /\ plan = NULL
  /\ rollbackPlan = <<>>
  /\ scans = 0
  /\ calls = EmptyBag
  /\ settled = NULL

\* a function is applied to the ProjectState and returns
Returned(kind, strategy, result) ==
  /\ settled = NULL
  /\ settled' = [kind |-> kind, pc |-> "done", outcome |-> "returned", strategy |-> strategy,
                 result |-> result]

detectStrategy_call ==
  /\ Returned("detectStrategy", NoStrategy, detectStrategy(state))
  /\ UNCHANGED <<state, plan, rollbackPlan, scans, calls>>

validate_call(strategy) ==
  /\ Returned("validate", strategy, validate(strategy, state))
  /\ UNCHANGED <<state, plan, rollbackPlan, scans, calls>>

execute_call(strategy) ==
  /\ Returned("execute", strategy, execute(strategy, state))
  /\ UNCHANGED <<state, plan, rollbackPlan, scans, calls>>

validatePreFlight_call ==
  /\ Returned("validatePreFlight", NoStrategy, validatePreFlight(state))
  /\ UNCHANGED <<state, plan, rollbackPlan, scans, calls>>

validatePostMigration_call ==
  /\ Returned("validatePostMigration", NoStrategy, validatePostMigration(state))
  /\ UNCHANGED <<state, plan, rollbackPlan, scans, calls>>

AtomicValidator_validateCompletion_call ==
  /\ Returned("validateCompletion", NoStrategy, AtomicValidator_validateCompletion(state))
  /\ UNCHANGED <<state, plan, rollbackPlan, scans, calls>>

calculateMigrationSuccess_call ==
  /\ Returned("calculateMigrationSuccess", NoStrategy, calculateMigrationSuccess(state))
  /\ UNCHANGED <<state, plan, rollbackPlan, scans, calls>>

PureNext ==
  \/ detectStrategy_call
  \/ \E s \in SupportedStrategies : validate_call(s)
  \/ \E s \in SupportedStrategies : execute_call(s)
  \/ validatePreFlight_call
  \/ validatePostMigration_call
  \/ AtomicValidator_validateCompletion_call
  \/ calculateMigrationSuccess_call
  \/ continuation

PureSpec == PureInit /\ [][PureNext]_vars

\* ============================================================ the MCP server
\* The server of services/code-generator.ts holds one MigrationEngine and
\* calls it from its tool handlers.  analyze_project is scanProjectState
\* followed by detectStrategy on what it returned, validate_migration_state
\* is validateCompletion; both are the engine actions above.  The handler of
\* execute_atomic_migration is modelled here.  What detectStrategy finds in
\* the scanned project is the environment's choice, as the scan is.  The
\* client sends its tool calls one after the other: a tool call is taken up
\* when none is in flight.

\* the handler's call of executeAtomicMigration (not a dry run).  strategy
\* is the handler's local; scannedHere and planFor are history: whether the
\* handler has scanned, and the strategy of the plan the engine holds.
toolExecute(strategy, scannedHere) ==
  LET new == NewExecute @@ [strategy |-> strategy, scannedHere |-> scannedHere,
                            planFor |-> IF plan = NULL THEN NoStrategy ELSE plan.strategy]
  IN IF mustPlanFirst THEN throw(new)
     ELSE [new EXCEPT !.validations = validationsOfType(plan, "pre")]

\* the handler's call of createReplacementPlan (a dry run); scannedHere
\* is history, as in toolExecute
toolCreate(strategy, ops, scannedHere) ==
  LET new == [kind |-> "create", pc |-> "generate", outcome |-> "pending", scannedHere |-> scannedHere,
              plan |-> [strategy |-> strategy, replacements |-> ops, validations |-> <<>>,
                        rollbackPlan |-> <<>>, estimatedTime |-> 0, scannedFrom |-> state]]
  IN IF mustScanFirst THEN throw([new EXCEPT !.plan = NULL]) ELSE new

analyze_project == calls = EmptyBag /\ scanProjectState

validate_migration_state == calls = EmptyBag /\ validateCompletion_call

\* execute_atomic_migration with args.strategy given: no scan is made
execute_atomic_migration_call(strategy, dryRun) ==
  /\ calls = EmptyBag
  /\ IF dryRun THEN \E ops \in ReplacementLists : Called(toolCreate(strategy, ops, FALSE))
     ELSE Called(toolExecute(strategy, FALSE))
  /\ UNCHANGED <<state, plan, rollbackPlan, scans>>

\* execute_atomic_migration without args.strategy, up to its first await:
\* scanProjectState runs, the handler waits for its promise
execute_atomic_migration_scan(dryRun) ==
  /\ calls = EmptyBag
  /\ scans < MaxScans
  /\ scans' = scans + 1
  /\ state' = [scan |-> scans + 1]
  /\ Called([kind |-> "tool", pc |-> "detect", outcome |-> "pending", dryRun |-> dryRun])
  /\ UNCHANGED <<plan, rollbackPlan>>

\* ... and from detectStrategy on: no strategy is an error result, a dry run
\* calls createReplacementPlan, anything else executeAtomicMigration
execute_atomic_migration_detected ==
  \E c \in InFlight :
  /\ At(c, "tool", "detect")
  /\ \E strategy \in MigrationStrategy \cup {NoStrategy}, ops \in ReplacementLists :
       Stepped(c, IF strategy = NoStrategy THEN return(c)
                  ELSE IF c.dryRun THEN toolCreate(strategy, ops, TRUE)
                  ELSE toolExecute(strategy, TRUE))
  /\ UNCHANGED <<state, plan, rollbackPlan, scans>>

ServerNext ==
  \/ analyze_project
  \/ \E s \in MigrationStrategy, dryRun \in BOOLEAN : execute_atomic_migration_call(s, dryRun)
  \/ \E dryRun \in BOOLEAN : execute_atomic_migration_scan(dryRun)
  \/ execute_atomic_migration_detected
  \/ createReplacementPlan_resume
  \/ executeAtomicMigration_afterPre
  \/ executeAtomicMigration_afterOperation
  \/ executeAtomicMigration_afterPost
  \/ executeAtomicMigration_afterRollback
  \/ validate_migration_state
  \/ validateCompletion_resume
  \/ continuation

ServerSpec == Init /\ [][ServerNext]_vars

\* ================================================================ claims
\* the calls of a kind that are in flight or have just settled
CallsOf(kind) ==
  {c \in InFlight \cup (IF settled = NULL THEN {} ELSE {settled}) : c.kind = kind}

Settled(kind) == settled # NULL /\ settled.kind = kind

OperationIds(ops) == [i \in 1..Len(ops) |-> ops[i].id]

CriticalIds(ops) == {ops[i].id : i \in {j \in 1..Len(ops) : ops[j].critical}}

\* C1: when the critical operation at plan index k fails, completedOperations
\* holds the ids of the operations before k, and the rollback actions invoked
\* are the inverse actions of exactly those operations, in reverse order.
C1_RollbackProperty ==
  \A c \in CallsOf("execute") :
    (c.pc = "done" /\ c.trigger = "critical") =>
      /\ c.result.completedOperations = OperationIds(SubSeq(c.ops, 1, c.idx - 1))
      /\ c.rolledBack = Reverse(c.result.completedOperations)

\* C2: operations are handed to executeOperation strictly in plan order; a
\* failing critical operation stops the loop (no later operation is
\* attempted) and the call returns success=false, rollbackExecuted=true, with
\* neither the failed operation nor a later one in completedOperations.
C2_CriticalFailureStops ==
  \A c \in CallsOf("execute") :
    /\ c.attempted = OperationIds(SubSeq(c.ops, 1, c.idx))
    /\ (Range(c.result.failedOperations) \cap CriticalIds(c.ops) # {}) => c.trigger = "critical"
    /\ c.trigger = "critical" =>
         /\ c.pc \in {"rollback", "done"}
         /\ c.ops[c.idx].critical
         /\ c.result.failedOperations[Len(c.result.failedOperations)] = c.ops[c.idx].id
         /\ Range(c.result.completedOperations) \cap {c.ops[j].id : j \in c.idx..Len(c.ops)} = {}
         /\ ~c.result.success
         /\ c.pc = "done" => c.result.rollbackExecuted

C2_Witness ==
  /\ Settled("execute")
  /\ settled.trigger = "critical"
  /\ settled.result.rollbackExecuted
  /\ settled.idx < Len(settled.ops)

C4_PreFlightAbort ==
  \A c \in CallsOf("execute") :
    (c.pc = "done" /\ c.trigger = "pre") =>
      /\ ~c.result.success
      /\ c.result.completedOperations = <<>>
      /\ c.result.failedOperations = <<>>
      /\ c.result.issues = c.result.validationResults[1].issues
      /\ ~c.result.rollbackExecuted

\* C5: post-migration validation starts only when every operation of the
\* plan has been attempted and no critical one has failed; an invalid result
\* sends the call into rollback as a critical failure does: success=false,
\* rollbackExecuted=true, the post-migration issues in issues.
C5_PostValidationGate ==
  \A c \in CallsOf("execute") :
    /\ (c.pc = "post" \/ c.trigger = "post" \/ Len(c.result.validationResults) = 2) =>
         /\ c.attempted = OperationIds(c.ops)
         /\ Range(c.result.completedOperations) \cup Range(c.result.failedOperations)
              = Range(OperationIds(c.ops))
         /\ Range(c.result.failedOperations) \cap CriticalIds(c.ops) = {}
    /\ c.trigger = "post" =>
         /\ c.pc \in {"rollback", "done"}
         /\ ~c.result.success
         /\ ~c.result.validationResults[2].valid
         /\ c.result.validationResults[2].issues # <<>>
         /\ c.result.issues = c.result.validationResults[2].issues
         /\ c.pc = "done" => c.result.rollbackExecuted

C5_Witness ==
  /\ Settled("execute")
  /\ settled.trigger = "post"
  /\ Len(settled.ops) = MaxOps
  /\ settled.result.rollbackExecuted

\* C6: rollback is best effort: every inverse action of a completed
\* operation is attempted whether or not another one failed, and the result
\* reports rollbackExecuted=true.
C6_BestEffortRollback ==
  \A c \in CallsOf("execute") :
    (c.pc = "done" /\ c.trigger \in {"critical", "post"}) =>
      /\ c.result.rollbackExecuted
      /\ Range(c.rolledBack) = Range(c.result.completedOperations)

\* while a precondition is missing, every call that needs it has thrown and
\* has run nothing
C7_NothingRunsBeforeItsPrecondition ==
  /\ state = NULL =>
       /\ plan = NULL
       /\ \A c \in CallsOf("create") : c.outcome = "threw" /\ c.plan = NULL
  /\ plan = NULL => \A c \in CallsOf("execute") : c.outcome = "threw"
  /\ \A c \in CallsOf("execute") :
       c.outcome = "threw" =>
         /\ plan = NULL
         /\ c.result = NewResult
         /\ c.attempted = <<>>
         /\ c.rolledBack = <<>>

\* C7: createReplacementPlan on an engine that has never scanned throws and
\* leaves the engine without a plan; executeAtomicMigration on an engine
\* without a plan throws before any validation, operation or rollback
\* action; a call that throws changes no field of the engine.
C7_PreconditionErrors ==
  /\ []C7_NothingRunsBeforeItsPrecondition
  /\ [][(settled = NULL /\ settled' # NULL /\ settled'.kind \in {"create", "execute"}
           /\ settled'.outcome = "threw")
          => (state' = state /\ plan' = plan /\ rollbackPlan' = rollbackPlan /\ calls' = calls)]_vars

C7_Witness ==
  /\ Settled("execute")
  /\ settled.outcome = "threw"
  /\ state # NULL

\* C8: the engine is not reentrant: while a createReplacementPlan or
\* executeAtomicMigration call is in flight, no second such call is.
C8_NotReentrant ==
  LET S == {c \in InFlight : c.kind \in {"create", "execute"}}
  IN Cardinality(S) <= 1 /\ \A c \in S : CopiesIn(c, calls) = 1

\* C9: the engine holds the ProjectState of the latest scan, and no plan
\* built from an earlier scan is executed: executeAtomicMigration accepts
\* only a plan created from the ProjectState the engine holds.
C9_ScanInvalidatesPlan ==
  /\ state # NULL => state.scan = scans
  /\ \A c \in CallsOf("execute") : c.outcome # "threw" => ~c.stale

\* a validateCompletion call starts, or runs to its end
ValidateCompletionStep ==
  \/ settled = NULL /\ settled' # NULL /\ settled'.kind = "validate"
  \/ \E v \in BagToSet(calls') : v.kind = "validate" /\ CopiesIn(v, calls') > CopiesIn(v, calls)

\* the result of validateCompletion: valid is the conjunction of five
\* checks, with one issue per failing check
C10_FiveChecks ==
  \A c \in CallsOf("validate") :
    c.outcome = "returned" =>
      /\ Len(c.checks) = 5
      /\ c.result.valid = (\A k \in 1..5 : c.checks[k])
      /\ Len(c.result.issues) = Cardinality({k \in 1..5 : ~c.checks[k]})

\* C10: validateCompletion is accepted in every state of the engine, its
\* result is built from five checks (valid is their conjunction, one issue
\* per failing check), and its steps leave state, plan and rollbackPlan as
\* they are.
C10_ValidateCompletionIndependent ==
  /\ []((settled = NULL /\ BagCardinality(calls) < MaxInFlight) => ENABLED validateCompletion_call)
  /\ []C10_FiveChecks
  /\ [][ValidateCompletionStep => (state' = state /\ plan' = plan /\ rollbackPlan' = rollbackPlan)]_vars

C10_Witness ==
  /\ Settled("validate")
  /\ settled.outcome = "returned"
  /\ ~settled.result.valid
  /\ \E c \in InFlight : c.kind = "execute" /\ c.pc = "op"

\* what the engine's plan keeps of an operation list: positions and the
\* critical flags (in the plan, the operation at position i has id i)
Planned(ops) == [i \in 1..Len(ops) |-> [id |-> i, critical |-> ops[i].critical]]

\* C11: the plan createReplacementPlan(strategy) returns is built from the
\* strategy registered for that name: its operations are, in order, those the
\* strategy's execute returns for the scanned ProjectState, and its rollback
\* plan has one action per operation, with the same ids in the same order.
C11_PlanFromStrategy ==
  \A c \in CallsOf("create") :
    c.outcome = "returned" =>
      /\ c.plan.strategy \in SupportedStrategies
      /\ c.plan.replacements = Planned(execute(c.plan.strategy, EmptyProjectState))
      /\ c.plan.rollbackPlan = [i \in 1..Len(c.plan.replacements) |->
                                  [operationId |-> c.plan.replacements[i].id]]

\* C12: executeAtomicMigration reports success only after a post-migration
\* validation that comprises all five post-migration checks (modal present,
\* stylesheet imported, environment as enum, no source dependency left,
\* target dependency present).
C12_AllFivePostChecks ==
  \A c \in CallsOf("execute") :
    c.result.success =>
      \A k \in 1..Len(postMigrationChecks) :
        \E i \in 1..Len(c.validations) : checkOf(c.validations[i]) = postMigrationChecks[k]

\* C13: once the engine has a plan, an executeAtomicMigration call never
\* throws; whatever sent it into its catch block is in the result it returns
\* (a failed critical operation in failedOperations, the issues of an invalid
\* validation in issues, a failed rollback as a ROLLBACK_FAILED issue), the
\* result is exactly one of succeeded, rolled back and failed, and a call in
\* flight can always take its next step.
C13_AlwaysReturnsResult ==
  /\ \A c \in CallsOf("execute") :
       /\ c.outcome = "threw" => (plan = NULL /\ c.trigger = "none")
       /\ c.outcome = "pending" => c.pc \in {"pre", "op", "post", "rollback"}
       /\ ~(c.result.success /\ c.result.rollbackExecuted)
       /\ c.result.success => (c.outcome = "returned" /\ c.trigger = "none" /\ c.result.issues = <<>>)
       /\ c.outcome = "returned" =>
            /\ c.trigger = "none" => c.result.success
            /\ c.trigger = "critical" => c.result.failedOperations # <<>>
            /\ c.trigger \in {"pre", "post"} => c.result.issues # <<>>
            /\ (~c.result.success /\ ~c.result.rollbackExecuted) =>
                 \E i \in 1..Len(c.result.issues) : c.result.issues[i].code = "ROLLBACK_FAILED"
  /\ settled = NULL =>
       /\ (\E c \in InFlight : At(c, "execute", "pre")) => ENABLED executeAtomicMigration_afterPre
       /\ (\E c \in InFlight : At(c, "execute", "op")) => ENABLED executeAtomicMigration_afterOperation
       /\ (\E c \in InFlight : At(c, "execute", "post")) => ENABLED executeAtomicMigration_afterPost
       /\ (\E c \in InFlight : At(c, "execute", "rollback")) => ENABLED executeAtomicMigration_afterRollback

C13_Witness ==
  /\ Settled("execute")
  /\ settled.outcome = "returned"
  /\ settled.trigger = "validator-threw"
  /\ settled.result.completedOperations # <<>>
  /\ ~settled.result.success

\* C14: a non-dry-run execute_atomic_migration tool call performs the whole
\* migration, whatever preceded it: it scans the project, and the
\* executeAtomicMigration it makes does not throw but executes a plan made
\* for the call's strategy from the ProjectState of that scan.
C14_CompleteMigrationInOneCall ==
  \A c \in CallsOf("execute") :
    /\ c.outcome # "threw"
    /\ c.scannedHere
    /\ c.planFor = c.strategy
    /\ ~c.stale

\* the fingerprint substring of the provider a strategy migrates from
fingerprint(strategy) ==
  CASE strategy = "privy-to-para" -> "privy"
    [] strategy = "reown-to-para" -> "reown"
    [] strategy = "web3modal-to-para" -> "web3modal"

\* some dependency name or some import source contains the fingerprint
matches(strategy, st) ==
  \/ \E dep \in keys(st.dependencies) : includes(dep, fingerprint(strategy))
  \/ \E i \in 1..Len(st.imports) : includes(st.imports[i].from, fingerprint(strategy))

\* Privy, then ReOwn, then Web3Modal
priorityOrder == <<"privy-to-para", "reown-to-para", "web3modal-to-para">>

firstMatch(st) ==
  LET matching == filter(priorityOrder, LAMBDA s : matches(s, st))
  IN IF matching = <<>> THEN NoStrategy ELSE matching[1]

\* C15: detectStrategy returns the strategy of the first provider, in the
\* order Privy, ReOwn, Web3Modal, whose fingerprint occurs in some dependency
\* name or some import source, and none exactly when no provider matches.
C15_FirstMatchInPriorityOrder ==
  Settled("detectStrategy") => settled.result = firstMatch(state)

\* C16: for each of the three strategies, validate(state) is true exactly
\* when some dependency name or some import of the state carries the
\* fingerprint of the strategy's provider.
C16_ValidateIffFingerprint ==
  Settled("validate") => (settled.result <=> matches(settled.strategy, state))

\* the entry of PROVIDER_REPLACEMENT_MAP for a strategy, NULL when the map
\* has none (it has none for web3modal-to-para)
providerReplacement(strategy) ==
  CASE strategy = "privy-to-para" -> PROVIDER_REPLACEMENT_MAP.privy_to_para
    [] strategy = "reown-to-para" -> PROVIDER_REPLACEMENT_MAP.reown_to_para
    [] OTHER -> NULL

ProviderOperations(ops) == {k \in 1..Len(ops) : ops[k].type = "provider"}

\* the text opens the target provider block, holds the modal component
\* after the opening and closes the block after the modal
nestedModal(text, entry) ==
  LET open == indexOf(text, "<" \o entry.replacement)
      modal == indexOf(text, "<" \o entry.requiredComponents[1] \o " />")
      close == indexOf(text, "</" \o entry.replacement \o ">")
  IN 0 < open /\ open < modal /\ modal < close

C18_OperationIdsUnique ==
  Settled("execute") =>
    \A i, j \in 1..Len(settled.result) :
      settled.result[i].id = settled.result[j].id => i = j

\* the results of the checks a battery runs, in the order it runs them
checksOf(battery, st) ==
  CASE battery = "validatePreFlight" ->
         <<checkMigratableContent(st), checkProjectStructure(st), checkForConflicts(st)>>
    [] battery = "validatePostMigration" ->
         <<validateParaModalPresent(st), validateParaCssImports(st), validateEnvironmentEnum(st),
           validateOldDependenciesRemoved(st), validateParaDependenciesPresent(st)>>
    [] battery = "validateCompletion" ->
         <<validateNoOldImports(st), validateParaHooksUsage(st), validateParaProviderConfig(st)>>

RECURSIVE concatenation(_)
\* the sequences of a sequence, one after the other
concatenation(seqs) ==
  IF seqs = <<>> THEN <<>> ELSE Head(seqs) \o concatenation(Tail(seqs))

Batteries == {"validatePreFlight", "validatePostMigration", "validateCompletion"}

\* C19: the result of each battery has valid the conjunction of its checks,
\* issues the issues of its failing checks, and warnings the warnings of all
\* its checks, those of passing checks included.
C19_BatteryCombinesItsChecks ==
  (settled # NULL /\ settled.kind \in Batteries) =>
    LET checks == checksOf(settled.kind, state)
    IN /\ settled.result.valid = (\A k \in 1..Len(checks) : checks[k].valid)
       /\ settled.result.issues =
            concatenation([k \in 1..Len(checks) |->
                             IF checks[k].valid THEN <<>> ELSE checks[k].issues])
       /\ settled.result.warnings =
            concatenation([k \in 1..Len(checks) |-> checks[k].warnings])

ParaProviderCount(st) ==
  Cardinality({k \in 1..Len(st.providers) : st.providers[k].provider = "ParaProvider"})

SourceTaggedImports(st) ==
  {k \in 1..Len(st.imports) : st.imports[k].type \in {"privy", "reown", "web3modal"}}

TargetHooks(st) == {k \in 1..Len(st.hooks) : includes(st.hooks[k].from, "para")}

Warns(result, about) == \E k \in 1..Len(result.warnings) : includes(result.warnings[k], about)

IssueCodes(result) == {result.issues[k].code : k \in 1..Len(result.issues)}

\* C20: validateCompletion of a state without source-tagged imports and
\* with two or more ParaProvider usages is valid, has no issue and warns
\* about multiple providers; with no ParaProvider usage it is invalid with
\* a NO_PARA_PROVIDER issue; a state without target-sourced hooks gets a
\* warning for that and no issue.
C20_CompletionProviderCount ==
  Settled("validateCompletion") =>
    LET result == settled.result
    IN /\ (SourceTaggedImports(state) = {} /\ ParaProviderCount(state) >= 2) =>
            /\ result.valid
            /\ result.issues = <<>>
            /\ Warns(result, "Multiple ParaProviders")
       /\ ParaProviderCount(state) = 0 =>
            ~result.valid /\ "NO_PARA_PROVIDER" \in IssueCodes(result)
       /\ TargetHooks(state) = {} =>
            /\ Warns(result, "No Para hooks")
            /\ IssueCodes(result) \subseteq {"OLD_IMPORT_PRESENT", "NO_PARA_PROVIDER"}

\* whether a sequence holds a record that passes the test
Present(seq, Test(_)) == \E k \in 1..Len(seq) : Test(seq[k])

\* the conditions of the migration score, each with its weight
scoreTable(st) ==
  << <<15, \E dep \in keys(st.dependencies) : includes(dep, "para")>>,
     <<15, ~\E dep \in keys(st.dependencies) :
              \E source \in {"privy", "reown", "web3modal"} : includes(dep, source)>>,
     <<15, Present(st.imports, LAMBDA i : includes(i.from, "para"))>>,
     <<10, ~Present(st.imports, LAMBDA i : i.type \in {"privy", "reown", "web3modal"})>>,
     <<15, Present(st.providers, LAMBDA p : p.provider = "ParaProvider")>>,
     <<10, Present(st.imports, LAMBDA i : includes(i.import, "ParaModal"))>>,
     <<10, Present(st.styles, LAMBDA s : s.isParaStyle)>>,
     <<10, Present(st.hooks, LAMBDA h : includes(h.from, "para"))>> >>

RECURSIVE weightOfSatisfied(_)
weightOfSatisfied(table) ==
  IF table = <<>> THEN 0
  ELSE (IF Head(table)[2] THEN Head(table)[1] ELSE 0) + weightOfSatisfied(Tail(table))

\* C21: calculateMigrationSuccess returns an integer from 0 to 100, the sum
\* of the weights of the satisfied conditions, the same for the same state,
\* and the results of the three validations of the state are what they were.
C21_ScoreIsWeightedSum ==
  Settled("calculateMigrationSuccess") =>
    /\ settled.result \in 0..100
    /\ settled.result = weightOfSatisfied(scoreTable(state))
    /\ settled.result = calculateMigrationSuccess(state)

\* the score of a state that satisfies some conditions and misses others
C21_Witness ==
  /\ Settled("calculateMigrationSuccess")
  /\ settled.result > 25
  /\ settled.result < 100
  /\ Present(state.imports, LAMBDA i : i.type \in {"privy", "reown", "web3modal"})

OperationsOfType(ops, type) == {k \in 1..Len(ops) : ops[k].type = type}

Removals(ops) == {k \in OperationsOfType(ops, "dependency") : ops[k].newValue = ""}

\* C22: execute emits the dependency operations first: one critical removal
\* for each dependency of the state that belongs to the source provider,
\* none for a dependency the state does not hold, and after the removals
\* one critical operation that adds the target SDK dependency.
C22_DependencyOperationsFirst ==
  Settled("execute") =>
    LET ops == settled.result
        dependencyOps == OperationsOfType(ops, "dependency")
        sourceDeps == {dep \in keys(state.dependencies) : includes(dep, fingerprint(settled.strategy))}
        n == Cardinality(dependencyOps)
    IN /\ dependencyOps = 1..n
       /\ \A k \in dependencyOps : ops[k].critical
       /\ Removals(ops) = 1..(n - 1)
       /\ \A dep \in sourceDeps : Cardinality({k \in Removals(ops) : ops[k].oldValue = dep}) = 1
       /\ \A k \in Removals(ops) : ops[k].oldValue \in keys(state.dependencies)
       /\ n >= 1 /\ ops[n].oldValue = "" /\ ops[n].newValue = "@para-wallet/react"

\* C23: for each of the three strategies, execute emits one critical style
\* operation for every entry point of the state, and the style operations
\* come after all the other operations.
C23_StylePerEntryPoint ==
  Settled("execute") =>
    LET ops == settled.result
        styleOps == OperationsOfType(ops, "style")
        entryPoints == {state.entryPoints[k] : k \in 1..Len(state.entryPoints)}
    IN /\ \A k \in styleOps : ops[k].critical /\ ops[k].file \in entryPoints
       /\ \A e \in entryPoints : Cardinality({k \in styleOps : ops[k].file = e}) = 1
       /\ \A k \in styleOps : \A j \in 1..Len(ops) : j > k => j \in styleOps

\* the table of HOOK_REPLACEMENT_MAP for a strategy
hookTable(strategy) ==
  CASE strategy = "privy-to-para" -> HOOK_REPLACEMENT_MAP.privy_to_para
    [] strategy = "reown-to-para" -> HOOK_REPLACEMENT_MAP.reown_to_para
    [] strategy = "web3modal-to-para" -> HOOK_REPLACEMENT_MAP.web3modal_to_para

\* the operations of one type, in the order of the plan
OperationsInOrder(ops, type) == filter(ops, LAMBDA op : op.type = type)

\* C24: execute emits one hook rewrite for every HookUsage whose hook is a
\* key of the strategy's table in HOOK_REPLACEMENT_MAP, whatever its module,
\* each non-critical and with the hook replaced by its mapped hook, and no
\* hook rewrite for any other HookUsage.
C24_HookRewritesFollowTable ==
  Settled("execute") =>
    LET table == hookTable(settled.strategy)
        usages == filter(state.hooks, LAMBDA h : h.hook \in DOMAIN table)
        hookOps == OperationsInOrder(settled.result, "hook")
    IN /\ Len(hookOps) = Len(usages)
       /\ \A k \in 1..Len(hookOps) :
            /\ ~hookOps[k].critical
            /\ hookOps[k].file = usages[k].file /\ hookOps[k].line = usages[k].line
            /\ hookOps[k].oldValue = usages[k].usage
            /\ hookOps[k].newValue = replace(usages[k].usage, usages[k].hook, table[usages[k].hook])

\* the package names a strategy's import rewrite replaces when no symbol
\* of its table is named
sourcePackages(strategy) ==
  CASE strategy = "privy-to-para" -> {"@privy-io/react-auth"}
    [] strategy = "reown-to-para" ->
         {"@reown/appkit", "@reown/appkit-react", "@reown/appkit-adapter-wagmi",
          "@web3modal/wagmi", "@web3modal/siwe", "@web3modal/ethereum"}
    [] OTHER -> {}

\* C25: an import rewrite of an import that names exactly one symbol of the
\* strategy's table names exactly the mapped symbol, also when another key
\* of the table is a prefix of the symbol; an import that names a hook in no
\* table and no source package is left as it is by the package replacement.
C25_ImportSymbolMapped ==
  Settled("execute") =>
    LET table == hookTable(settled.strategy)
        importOps == OperationsInOrder(settled.result, "import")
    IN \A k \in 1..Len(importOps) :
         LET symbol == importOps[k].oldValue
         IN /\ symbol \in DOMAIN table => importOps[k].newValue = table[symbol]
            /\ (/\ SubSeq(symbol, 1, 3) = "use"
                /\ symbol \notin DOMAIN table
                /\ \A package \in sourcePackages(settled.strategy) : ~includes(symbol, package))
                 => importOps[k].newValue = symbol

\* a provider usage passes one of the two environment names as a string
stringEnvironment(provider) ==
  \E k \in 1..Len(provider.props) : provider.props[k][2] \in {"development", "production"}

\* the state fails the stylesheet check and no other post-migration check
failsOnlyStylesheet(st) ==
  /\ ~validateParaCssImports(st).valid
  /\ validateParaModalPresent(st).valid
  /\ validateEnvironmentEnum(st).valid
  /\ validateOldDependenciesRemoved(st).valid
  /\ validateParaDependenciesPresent(st).valid

\* C26: validatePostMigration reports STRING_ENVIRONMENT exactly when some
\* provider usage passes "development" or "production" as a string, for
\* either string and any provider; no issue code is reported twice, and a
\* state that fails the stylesheet check only gets valid=false with the one
\* issue MISSING_PARA_CSS.
C26_StringEnvironment ==
  Settled("validatePostMigration") =>
    LET result == settled.result
    IN /\ "STRING_ENVIRONMENT" \in IssueCodes(result)
            <=> Present(state.providers, stringEnvironment)
       /\ \A i, j \in 1..Len(result.issues) :
            result.issues[i].code = result.issues[j].code => i = j
       /\ failsOnlyStylesheet(state) =>
            /\ ~result.valid
            /\ Len(result.issues) = 1
            /\ result.issues[1].code = "MISSING_PARA_CSS"

RollbackFailed(result) == \E i \in 1..Len(result.issues) : result.issues[i].code = "ROLLBACK_FAILED"

\* C27: in every result executeAtomicMigration returns, success and
\* rollbackExecuted are not both true, and with success=false exactly one
\* of the two holds: rollbackExecuted is true, or the issues hold a
\* ROLLBACK_FAILED issue.
C27_SuccessRollbackExclusive ==
  \A c \in CallsOf("execute") :
    c.outcome = "returned" =>
      /\ ~(c.result.success /\ c.result.rollbackExecuted)
      /\ ~c.result.success => (c.result.rollbackExecuted <=> ~RollbackFailed(c.result))

\* a call has returned success=false after a post-migration validation
\* found the migration invalid
C27_Witness ==
  /\ Settled("execute")
  /\ settled.outcome = "returned"
  /\ settled.trigger = "post"
  /\ ~settled.result.success
  /\ settled.result.rollbackExecuted

\* the positions in the plan of the operations a list of ids names
PositionsOf(ops, ids) == {k \in 1..Len(ops) : \E i \in 1..Len(ids) : ids[i] = ops[k].id}

\* C28: in every result executeAtomicMigration returns, no operation is both
\* completed and failed, the operations in the two lists are the first ones
\* of the plan, each list in plan order, at most one failed operation is
\* critical and it is the last one attempted, and with success=true every
\* operation of the plan is in one of the lists and no failed one is
\* critical.
C28_OperationListsPartitionPrefix ==
  \A c \in CallsOf("execute") :
    c.outcome = "returned" =>
      LET completed == c.result.completedOperations
          failed == c.result.failedOperations
          attempted == Len(completed) + Len(failed)
          criticalFailed == {k \in PositionsOf(c.ops, failed) : c.ops[k].critical}
      IN /\ Range(completed) \cap Range(failed) = {}
         /\ PositionsOf(c.ops, completed) \cup PositionsOf(c.ops, failed) = 1..attempted
         /\ \A i, j \in 1..Len(completed) : i < j => completed[i] < completed[j]
         /\ \A i, j \in 1..Len(failed) : i < j => failed[i] < failed[j]
         /\ Cardinality(criticalFailed) <= 1
         /\ criticalFailed \subseteq {attempted}
         /\ c.result.success => (attempted = Len(c.ops) /\ criticalFailed = {})

\* a call has returned after its second operation, a critical one, failed
\* and its first operation completed
C28_Witness ==
  /\ Settled("execute")
  /\ settled.outcome = "returned"
  /\ settled.result.completedOperations = <<1>>
  /\ settled.result.failedOperations = <<2>>
  /\ settled.ops[2].critical
  /\ ~settled.result.success

\* C29: when detectStrategy returns a strategy for a state, validate of that
\* strategy is true for the state and the pre-flight check of migratable
\* content does not report NO_MIGRATABLE_CONTENT for it.
C29_SelectorAgreesWithGates ==
  (Settled("detectStrategy") /\ settled.result # NoStrategy) =>
    /\ validate(settled.result, state)
    /\ "NO_MIGRATABLE_CONTENT" \notin IssueCodes(checkMigratableContent(state))
    /\ "NO_MIGRATABLE_CONTENT" \notin IssueCodes(validatePreFlight(state))

\* C30: the plan an execute_atomic_migration tool call executes, or returns
\* in a dry run, was built for the call's strategy from a scan the call made
\* itself: never from a ProjectState or a plan an earlier call left in the
\* engine.
C30_PlanFromTheCallsOwnScan ==
  /\ \A c \in CallsOf("execute") :
       c.outcome # "threw" => (c.scannedHere /\ ~c.stale /\ c.planFor = c.strategy)
  /\ \A c \in CallsOf("create") :
       c.plan # NULL => (c.scannedHere /\ c.plan.scannedFrom = state)
====
